---- MODULE Spec2Model ----
(***************************************************************************)
(* HappyQuotes (src/happyquotes.py): the non-repeating quote selector with *)
(* its persisted history, the notifier, and the two entry modes of main(): *)
(* single-shot and the signal-aware daemon loop.                           *)
(*                                                                         *)
(* One process is modelled, statement by statement where a statement       *)
(* touches the file system, the OS or the shutdown flag.  The quote file,  *)
(* the history file and the outcome of every system call are chosen by the *)
(* environment.                                                            *)
(***************************************************************************)
EXTENDS Integers, Sequences, FiniteSets, TLC

VARIABLES
    mode,         \* "daemon" iff "--daemon" in sys.argv            (line 135)
    pc,           \* the statement the process is about to execute
    shutdown,     \* daemon_loop's local flag                       (line 109)
    handlers,     \* TRUE once signal.signal installed handle_signal
    slept,        \* iterations of `for _ in range(INTERVAL)` completed
    quotesFile,   \* content of QUOTES_FILE
    historyFile,  \* content of HISTORY_FILE
    quotes,       \* run_once's local `quotes`
    history,      \* pick_quote's local `history`
    quote,        \* pick_quote's local `quote` / run_once's `quote`
    message,      \* show_notification's `message` after truncation
    script,       \* show_notification's `applescript`
    tmpFile,      \* the mkstemp file: "none", "empty" or "written"
    err,          \* the exception in flight or being handled
    exitCode,     \* the process exit status
    logged,       \* log records of the cycle in progress: "showing", "error"
    \* ---- history variables (observations, never read by the program) ----
    cycles,       \* calls of run_once so far, saturating at MaxCycles
    edits,        \* external rewrites of the quote file so far
    lastPick,     \* pick_quote's call in the cycle in progress
    dispatched,   \* the body osascript was run with in that cycle, or NoText
    sigAt,        \* where the loop was when the first signal arrived
    slicesAfterStop, \* sleep(1) slices completed with shutdown set
    clean,        \* fixed duplicate-free pool, empty start, no pick failed
    shown,        \* texts returned since the last reset (while clean)
    \* ---- a second invocation of the program on the same files ----
    peer          \* its position in pick_quote and pick_quote's locals

vars == <<mode, pc, shutdown, handlers, slept, quotesFile, historyFile, quotes,
          history, quote, message, script, tmpFile, err, exitCode, logged,
          cycles, edits, lastPick, dispatched, sigAt, slicesAfterStop, clean,
          shown, peer>>

(***************************************************************************)
(* Bounds of the model.                                                    *)
(***************************************************************************)
\* Longest quote pool the quote file holds.
MaxPool == 3
\* Longest history list the history file starts with.
MaxHist == 2
\* Where the cycle counter saturates.
MaxCycles == 2
\* External rewrites of the quote file during one run.
MaxEdits == 1
\* One-second slices of the inter-cycle wait.  The source sets 3600
\* (line 20); the loop's shape does not depend on the number, and the model
\* runs it with a small one.
INTERVAL == 2

(***************************************************************************)
(* Program constants.                                                      *)
(***************************************************************************)
MAX_QUOTE_LEN == 200

(***************************************************************************)
(* Values.                                                                 *)
(***************************************************************************)
Range(s) == {s[i] : i \in 1..Len(s)}

NoDup(s) == \A i, j \in 1..Len(s) : i # j => s[i] # s[j]

Min(a, b) == IF a <= b THEN a ELSE b

NoText == ""

\* A text of 201 characters: with the quotation marks, the dash and the
\* author it makes a notification body longer than MAX_QUOTE_LEN.
Fifty == "Keep your face always toward the sunshine, and sh."
LongText == Fifty \o Fifty \o Fifty \o Fifty \o "!"

\* A quote record {"q": text, "a": author} of quotes.json.
Quote(q, a) == [q |-> q, a |-> a]

NoQuote == Quote(NoText, NoText)

\* The quote records the quote file is built from; the third repeats the
\* text of the first under another author.
Universe == << Quote("hello", "A"), Quote("world", "B"),
               Quote("hello", "C"), Quote(LongText, "D") >>

\* The sub-sequence of Universe at the indices in S, in order.
RECURSIVE Pick(_, _)
Pick(S, i) ==
    IF i > Len(Universe) THEN << >>
    ELSE IF i \in S THEN << Universe[i] >> \o Pick(S, i + 1)
    ELSE Pick(S, i + 1)

Pools == { Pick(S, 1) : S \in { T \in SUBSET (1..Len(Universe)) :
                                  Cardinality(T) <= MaxPool } }

\* Content of the quote file: a well-formed pool, or something load_quotes
\* cannot open ("unreadable") or cannot parse ("malformed").
QuoteFiles == { [kind |-> "pool", pool |-> p] : p \in Pools }
              \cup { [kind |-> k, pool |-> << >>] : k \in {"unreadable", "malformed"} }

TextsOf(pool) == { pool[i].q : i \in 1..Len(pool) }

\* A JSON number inside a list, written as a token no quote text equals.
NonString == "<0>"

Items == {"hello", "world", LongText, "stale"}

RECURSIVE SeqsUpTo(_, _)
SeqsUpTo(S, n) ==
    IF n = 0 THEN { << >> }
    ELSE LET shorter == SeqsUpTo(S, n - 1)
         IN  shorter \cup { Append(s, x) : s \in { t \in shorter : Len(t) = n - 1 }, x \in S }

\* Content of the history file.  kind is
\*   "absent"      no such file
\*   "unreadable"  the file exists and open() fails (permissions, a directory)
\*   "invalid"     not JSON (empty, truncated, garbage)
\*   "scalar"      a JSON number, true, false or null
\*   "object"      a JSON object with the keys `items`
\*   "list"        a JSON array with the elements `items`
Store(kind, items) == [kind |-> kind, items |-> items]

Stores ==
    { Store(k, << >>) : k \in {"absent", "unreadable", "invalid", "scalar"} }
    \cup { Store("list", s) : s \in SeqsUpTo(Items, MaxHist) }
    \cup { Store("list", << NonString >>), Store("list", << NonString, "hello" >>) }
    \cup { Store("object", s) : s \in { t \in SeqsUpTo(Items, MaxHist) : NoDup(t) } }

IsStrList(st) == st.kind = "list" /\ NonString \notin Range(st.items)

\* A Python value held in `history`; NoValue before the assignment.
NoValue == Store("none", << >>)

NoErr == [type |-> "none", at |-> "none"]

Exc(type, at) == [type |-> type, at |-> at]

NoPick == [outcome |-> "none", pool |-> << >>, store |-> Store("absent", << >>),
           reset |-> FALSE, quote |-> NoQuote, seen |-> << >>]

\* The second invocation before it has started: pc is its position
\* ("idle", "load_quotes", "load_history", "select", "save_history",
\* "done"), quotes/history/quote are the locals of its run_once and
\* pick_quote, store is the history file as its load_history found it.
IdlePeer == [pc |-> "idle", quotes |-> << >>, store |-> Store("absent", << >>),
             history |-> NoValue, quote |-> NoQuote, outcome |-> "none"]

(***************************************************************************)
(* Pure functions of the source.                                           *)
(***************************************************************************)
\* load_history (lines 38-45): the returned value, or the exception that
\* escapes.  Only JSONDecodeError and ValueError are caught, so a failing
\* open() propagates; whatever json.load returns is returned as it is.
load_history(st) ==
    CASE st.kind = "absent"     -> [raised |-> FALSE, value |-> Store("list", << >>)]
      [] st.kind = "unreadable" -> [raised |-> TRUE,  value |-> NoValue]
      [] st.kind = "invalid"    -> [raised |-> FALSE, value |-> Store("list", << >>)]
      [] OTHER                  -> [raised |-> FALSE, value |-> st]

\* `x in history` for a list (its elements) or a dict (its keys).
Contains(h, x) == x \in Range(h.items)

\* A filter that forgets the history.
Available_IgnoresHistory(qs, h) == qs

\* Line 55: [q for q in quotes if q["q"] not in history].
Available(qs, h) ==
    LET Keep(q) == ~Contains(h, q.q)
    IN  SelectSeq(qs, Keep)

\* A reset that keeps the loaded history.
ResetHistory_Keeps(available, h) == h

\* Lines 56-58: an empty `available` discards the loaded history.
ResetHistory(available, h) ==
    IF available = << >> THEN Store("list", << >>) ELSE h

\* A choice that is always made over the whole pool.
Candidates_WholePool(available, qs) == qs

\* A choice that falls back on a built-in quote when there is nothing to
\* draw from.
Candidates_Default(available, qs) ==
    IF qs = << >> THEN << Universe[1] >>
    ELSE IF available = << >> THEN qs ELSE available

\* A choice that, after an exhaustion, passes over the first quote of the
\* pool.
Candidates_Rest(available, qs) ==
    IF available = << >> THEN Tail(qs) ELSE available

\* Lines 56-59: what random.choice draws from.
Candidates(available, qs) ==
    IF available = << >> THEN qs ELSE available

\* A save that keeps what the file holds and adds what is new to it.
Overwrite_Merges(old, h) ==
    IF old.kind # "list" THEN h
    ELSE LET New(x) == x \notin Range(old.items)
         IN  Store("list", old.items \o SelectSeq(h.items, New))

\* Lines 49-50: the file is opened with "w" and the list dumped into it;
\* what it held before plays no part.
Overwrite(old, h) == h

\* Line 102: f'"{quote["q"]}" - {quote["a"]}' (the source's dash is U+2014,
\* one character, written "-" here).
Format(qt) == "\"" \o qt.q \o "\" - " \o qt.a

\* U+2026, one character, written "~" here.
Ellipsis == "~"

\* A cut at the limit itself, with the marker after it.
Truncate_AtLimit(m) ==
    IF Len(m) > MAX_QUOTE_LEN
    THEN SubSeq(m, 1, MAX_QUOTE_LEN) \o Ellipsis
    ELSE m

\* Lines 74-75.
Truncate(m) ==
    IF Len(m) > MAX_QUOTE_LEN
    THEN SubSeq(m, 1, MAX_QUOTE_LEN - 1) \o Ellipsis
    ELSE m

\* str.replace for a one-character pattern: every character that is c
\* becomes r (the string is halved to keep the evaluation shallow).
RECURSIVE Replace(_, _, _)
Replace(s, c, r) ==
    IF Len(s) = 0 THEN ""
    ELSE IF Len(s) = 1 THEN (IF s = c THEN r ELSE s)
    ELSE LET half == Len(s) \div 2
         IN  Replace(SubSeq(s, 1, half), c, r)
                 \o Replace(SubSeq(s, half + 1, Len(s)), c, r)

\* Lines 66-68: backslashes first, then double quotes.
applescript_escape(s) == Replace(Replace(s, "\\", "\\\\"), "\"", "\\\"")

\* The title run_once passes (line 104; U+2728 written "*").
Title == "HappyQuotes *"

\* Lines 77-82.
Applescript(title, m) ==
    "display notification \"" \o applescript_escape(m)
        \o "\" with title \"" \o applescript_escape(title) \o "\""

\* Lines 102 and 74-82 for each quote record of the model, worked out once:
\* the body after truncation and the script written to the temporary file.
Rendered ==
    [qt \in Range(Universe) |->
        [message |-> Truncate(Format(qt)),
         script  |-> Applescript(Title, Truncate(Format(qt)))]]

(***************************************************************************)
(* Initial state: the process has just been started.                       *)
(***************************************************************************)
DistinctTexts(pool) == Cardinality(TextsOf(pool)) = Len(pool)

EmptyStart(st) == st = Store("absent", << >>) \/ st = Store("list", << >>)

Init ==
    /\ mode \in {"single", "daemon"}
    /\ pc = "main"
    /\ shutdown = FALSE
    /\ handlers = FALSE
    /\ slept = 0
    /\ quotesFile \in QuoteFiles
    /\ historyFile \in Stores
    /\ quotes = << >>
    /\ history = NoValue
    /\ quote = NoQuote
    /\ message = NoText
    /\ script = NoText
    /\ tmpFile = "none"
    /\ err = NoErr
    /\ exitCode = 0
    /\ logged = {}
    /\ cycles = 0
    /\ edits = 0
    /\ lastPick = NoPick
    /\ dispatched = NoText
    /\ sigAt = "none"
    /\ slicesAfterStop = 0
    /\ clean = (quotesFile.kind = "pool" /\ DistinctTexts(quotesFile.pool)
                /\ EmptyStart(historyFile))
    /\ shown = << >>
    /\ peer = IdlePeer

(***************************************************************************)
(* Steps shared by the actions.                                            *)
(***************************************************************************)
InPick == {"load_quotes", "load_history", "select", "save_history"}

InNotify == {"format", "mkstemp", "write", "osascript", "unlink"}

InCycle == InPick \cup InNotify \cup {"except"}

InWait == {"wait_check", "sleep"}

\* run_once is called (lines 122, 139): its frame is fresh.
BeginCycle ==
    /\ pc' = "load_quotes"
    /\ err' = NoErr
    /\ cycles' = Min(cycles + 1, MaxCycles)
    /\ lastPick' = NoPick
    /\ dispatched' = NoText

\* run_once's frame is gone: its locals and those of its callees with it.
DropLocals ==
    /\ quotes' = << >>
    /\ history' = NoValue
    /\ quote' = NoQuote
    /\ message' = NoText
    /\ script' = NoText

\* Control after run_once returned or its exception was handled: the wait
\* loop of the daemon (line 126), where the handled exception is gone and
\* the cycle's observations are closed; the end of main in single-shot mode
\* (sys.exit(1) inside the handler, or falling off the end).
AfterCycle(status) ==
    IF mode = "daemon"
    THEN /\ pc' = "wait_check"
         /\ slept' = 0
         /\ exitCode' = exitCode
         /\ err' = NoErr
         /\ lastPick' = NoPick
         /\ dispatched' = NoText
    ELSE /\ pc' = "done"
         /\ slept' = slept
         /\ exitCode' = status
         /\ UNCHANGED <<err, lastPick, dispatched>>

\* An exception leaves run_once for the handler of its caller.
Raise(type) ==
    /\ pc' = "except"
    /\ err' = Exc(type, pc)

(***************************************************************************)
(* main (lines 133-142).                                                   *)
(***************************************************************************)
\* Lines 134-135: setup_logging, which is outside every try block, then the
\* dispatch on the mode.
Main ==
    /\ pc = "main"
    /\ \/ /\ mode = "daemon"
          /\ pc' = "install"
          /\ UNCHANGED <<err, exitCode, cycles, lastPick, dispatched>>
       \/ /\ mode = "single"
          /\ BeginCycle
          /\ UNCHANGED exitCode
       \/ /\ pc' = "crashed"
          /\ err' = Exc("OSError", pc)
          /\ exitCode' = 1
          /\ UNCHANGED <<cycles, lastPick, dispatched>>
    /\ UNCHANGED <<mode, shutdown, handlers, slept, quotesFile, historyFile,
                   quotes, history, quote, message, script, tmpFile, logged,
                   edits, sigAt, slicesAfterStop, clean, shown>>
    /\ UNCHANGED peer

(***************************************************************************)
(* daemon_loop (lines 107-130).                                            *)
(***************************************************************************)
\* Lines 109-119.
Install ==
    /\ pc = "install"
    /\ handlers' = TRUE
    /\ pc' = "while"
    /\ UNCHANGED <<mode, shutdown, logged, slept, quotesFile, historyFile, quotes,
                   history, quote, message, script, tmpFile, err, exitCode,
                   cycles, edits, lastPick, dispatched, sigAt,
                   slicesAfterStop, clean, shown>>
    /\ UNCHANGED peer

\* Line 120, and line 130 when the test fails.
While ==
    /\ pc = "while"
    /\ IF shutdown
       THEN /\ pc' = "done"
            /\ UNCHANGED <<err, cycles, lastPick, dispatched, logged>>
       ELSE /\ BeginCycle
            /\ logged' = {}
    /\ UNCHANGED <<mode, shutdown, handlers, slept, quotesFile, historyFile,
                   quotes, history, quote, message, script, tmpFile, exitCode,
                   edits, sigAt, slicesAfterStop, clean, shown>>
    /\ UNCHANGED peer

\* A wait that looks at the flag only in the while test.
WaitCheck_NoBreak ==
    /\ pc = "wait_check"
    /\ pc' = IF slept = INTERVAL THEN "while" ELSE "sleep"
    /\ UNCHANGED <<mode, shutdown, handlers, slept, quotesFile, historyFile,
                   quotes, history, quote, message, script, tmpFile, err,
                   exitCode, logged, cycles, edits, lastPick, dispatched,
                   sigAt, slicesAfterStop, clean, shown>>
    /\ UNCHANGED peer

\* A wait that is over after its first slice.
WaitCheck_OneSlice ==
    /\ pc = "wait_check"
    /\ pc' = IF slept >= 1 \/ shutdown THEN "while" ELSE "sleep"
    /\ UNCHANGED <<mode, shutdown, handlers, slept, quotesFile, historyFile,
                   quotes, history, quote, message, script, tmpFile, err,
                   exitCode, logged, cycles, edits, lastPick, dispatched,
                   sigAt, slicesAfterStop, clean, shown>>
    /\ UNCHANGED peer

\* Lines 126-128: the next iteration of the for loop, or its end.
WaitCheck ==
    /\ pc = "wait_check"
    /\ pc' = IF slept = INTERVAL \/ shutdown THEN "while" ELSE "sleep"
    /\ UNCHANGED <<mode, shutdown, handlers, slept, quotesFile, historyFile,
                   quotes, history, quote, message, script, tmpFile, err,
                   exitCode, logged, cycles, edits, lastPick, dispatched,
                   sigAt, slicesAfterStop, clean, shown>>
    /\ UNCHANGED peer

\* Line 129: time.sleep(1) returns; a signal handled meanwhile does not cut
\* it short (the sleep is resumed for the rest of its second).
Sleep ==
    /\ pc = "sleep"
    /\ slept' = slept + 1
    /\ slicesAfterStop' = IF shutdown THEN Min(slicesAfterStop + 1, 2)
                          ELSE slicesAfterStop
    /\ pc' = "wait_check"
    /\ UNCHANGED <<mode, shutdown, handlers, quotesFile, historyFile, quotes,
                   history, quote, message, script, tmpFile, err, exitCode,
                   logged, cycles, edits, lastPick, dispatched, sigAt, clean,
                   shown>>
    /\ UNCHANGED peer

\* A handler that logs and raises again: nothing above it catches.
Except_Reraises ==
    /\ pc = "except"
    /\ logged' = logged \cup {"error"}
    /\ DropLocals
    /\ pc' = "crashed"
    /\ exitCode' = 1
    /\ UNCHANGED <<mode, shutdown, handlers, slept, quotesFile, historyFile,
                   tmpFile, err, cycles, edits, lastPick, dispatched, sigAt,
                   slicesAfterStop, clean, shown>>
    /\ UNCHANGED peer

\* A handler that logs and leaves the loop.
Except_Breaks ==
    /\ pc = "except"
    /\ logged' = logged \cup {"error"}
    /\ DropLocals
    /\ pc' = "done"
    /\ exitCode' = IF mode = "daemon" THEN exitCode ELSE 1
    /\ UNCHANGED <<mode, shutdown, handlers, slept, quotesFile, historyFile,
                   tmpFile, err, cycles, edits, lastPick, dispatched, sigAt,
                   slicesAfterStop, clean, shown>>
    /\ UNCHANGED peer

\* A handler that logs and lets main return normally.
Except_ExitsZero ==
    /\ pc = "except"
    /\ logged' = logged \cup {"error"}
    /\ DropLocals
    /\ AfterCycle(0)
    /\ UNCHANGED <<mode, shutdown, handlers, quotesFile, historyFile, tmpFile,
                   cycles, edits, sigAt, slicesAfterStop, clean, shown>>
    /\ UNCHANGED peer

\* Lines 122-124 and 138-142: the handler of run_once's exception.
Except ==
    /\ pc = "except"
    /\ logged' = logged \cup {"error"}
    /\ DropLocals
    /\ AfterCycle(1)
    /\ UNCHANGED <<mode, shutdown, handlers, quotesFile, historyFile, tmpFile,
                   cycles, edits, sigAt, slicesAfterStop, clean, shown>>
    /\ UNCHANGED peer

\* handle_signal (lines 111-114), run by the interpreter between two
\* statements of the main thread once it is installed.
Where(p) ==
    CASE p \in InPick   -> "pick"
      [] p \in InNotify -> "notify"
      [] p = "except"   -> "except"
      [] p \in InWait   -> "wait"
      [] OTHER          -> "loop"

\* A handler that raises into the main thread, as Python's default SIGINT
\* handler does: the statement in progress is abandoned and the loop left.
handle_signal_Raises ==
    /\ handlers
    /\ pc \notin {"done", "crashed"}
    /\ shutdown' = TRUE
    /\ sigAt' = IF sigAt = "none" THEN Where(pc) ELSE sigAt
    /\ pc' = "done"
    /\ UNCHANGED <<mode, handlers, slept, quotesFile, historyFile, quotes,
                   history, quote, message, script, tmpFile, err, exitCode,
                   logged, cycles, edits, lastPick, dispatched,
                   slicesAfterStop, clean, shown>>
    /\ UNCHANGED peer

handle_signal ==
    /\ handlers
    /\ pc \notin {"done", "crashed"}
    /\ shutdown' = TRUE
    /\ sigAt' = IF sigAt = "none" THEN Where(pc) ELSE sigAt
    /\ UNCHANGED <<mode, pc, handlers, slept, quotesFile, historyFile, quotes,
                   history, quote, message, script, tmpFile, err, exitCode,
                   logged, cycles, edits, lastPick, dispatched,
                   slicesAfterStop, clean, shown>>
    /\ UNCHANGED peer

(***************************************************************************)
(* run_once (lines 99-104) and what it calls.                              *)
(***************************************************************************)
\* Line 100, load_quotes (lines 33-35): nothing is caught.
LoadQuotes ==
    /\ pc = "load_quotes"
    /\ CASE quotesFile.kind = "unreadable" ->
              Raise("OSError") /\ UNCHANGED quotes
         [] quotesFile.kind = "malformed" ->
              Raise("JSONDecodeError") /\ UNCHANGED quotes
         [] OTHER ->
              /\ quotes' = quotesFile.pool
              /\ pc' = "load_history"
              /\ UNCHANGED err
    /\ UNCHANGED <<mode, shutdown, handlers, slept, quotesFile, historyFile,
                   history, quote, message, script, tmpFile, exitCode, logged,
                   cycles, edits, lastPick, dispatched, sigAt,
                   slicesAfterStop, clean, shown>>
    /\ UNCHANGED peer

\* Line 54: pick_quote is entered and reads the history file.
LoadHistory ==
    /\ pc = "load_history"
    /\ LET r == load_history(historyFile)
           call == [NoPick EXCEPT !.pool = quotes, !.store = historyFile,
                                  !.seen = shown]
       IN  IF r.raised
           THEN /\ Raise("OSError")
                /\ lastPick' = [call EXCEPT !.outcome = "raised"]
                /\ clean' = FALSE
                /\ shown' = << >>
                /\ UNCHANGED history
           ELSE /\ history' = r.value
                /\ lastPick' = [call EXCEPT !.outcome = "pending"]
                /\ pc' = "select"
                /\ UNCHANGED <<err, clean, shown>>
    /\ UNCHANGED <<mode, shutdown, handlers, slept, quotesFile, historyFile,
                   quotes, quote, message, script, tmpFile, exitCode, logged,
                   cycles, edits, dispatched, sigAt, slicesAfterStop>>
    /\ UNCHANGED peer

\* A reset that is written to the file at once, before the choice.
Select_SavesReset ==
    /\ pc = "select"
    /\ LET available == Available(quotes, history)
           reset     == available = << >>
           h         == ResetHistory(available, history)
           from      == Candidates(available, quotes)
           fail(h2, q, type) ==
               /\ Raise(type)
               /\ history' = h2
               /\ quote' = q
               /\ lastPick' = [lastPick EXCEPT !.outcome = "raised"]
               /\ clean' = FALSE
               /\ shown' = << >>
       IN  IF history.kind = "scalar" /\ quotes # << >>
           THEN fail(history, quote, "TypeError")
           ELSE IF from = << >>
           THEN fail(h, quote, "IndexError")
           ELSE \E i \in 1..Len(from) :
                  IF h.kind # "list"
                  THEN fail(h, from[i], "AttributeError")
                  ELSE /\ quote' = from[i]
                       /\ history' = Store("list", Append(h.items, from[i].q))
                       /\ lastPick' = [lastPick EXCEPT !.reset = reset,
                                                       !.quote = from[i]]
                       /\ pc' = "save_history"
                       /\ UNCHANGED <<err, clean, shown>>
    /\ UNCHANGED <<mode, shutdown, handlers, slept, quotesFile,
                   quotes, message, script, tmpFile, exitCode, logged, cycles,
                   edits, dispatched, sigAt, slicesAfterStop>>
    /\ historyFile' = IF history.kind # "scalar"
                          /\ Available(quotes, history) = << >>
                       THEN Store("list", << >>)
                       ELSE historyFile
    /\ UNCHANGED peer

\* Lines 55-61: the filter, the reset, the choice and the append.  A number
\* or null in `history` makes the `in` of line 55 raise TypeError as soon as
\* one quote is tested; random.choice raises IndexError on an empty list; a
\* dict has no append.
Select ==
    /\ pc = "select"
    /\ LET available == Available(quotes, history)
           reset     == available = << >>
           h         == ResetHistory(available, history)
           from      == Candidates(available, quotes)
           fail(h2, q, type) ==
               /\ Raise(type)
               /\ history' = h2
               /\ quote' = q
               /\ lastPick' = [lastPick EXCEPT !.outcome = "raised"]
               /\ clean' = FALSE
               /\ shown' = << >>
       IN  IF history.kind = "scalar" /\ quotes # << >>
           THEN fail(history, quote, "TypeError")
           ELSE IF from = << >>
           THEN fail(h, quote, "IndexError")
           ELSE \E i \in 1..Len(from) :
                  IF h.kind # "list"
                  THEN fail(h, from[i], "AttributeError")
                  ELSE /\ quote' = from[i]
                       /\ history' = Store("list", Append(h.items, from[i].q))
                       /\ lastPick' = [lastPick EXCEPT !.reset = reset,
                                                       !.quote = from[i]]
                       /\ pc' = "save_history"
                       /\ UNCHANGED <<err, clean, shown>>
    /\ UNCHANGED <<mode, shutdown, handlers, slept, quotesFile, historyFile,
                   quotes, message, script, tmpFile, exitCode, logged, cycles,
                   edits, dispatched, sigAt, slicesAfterStop>>
    /\ UNCHANGED peer

\* A save put off until the notification has been shown: pick_quote returns
\* with the file as it was.
SaveHistory_Deferred ==
    /\ pc = "save_history"
    /\ \/ /\ UNCHANGED historyFile
          /\ lastPick' = [lastPick EXCEPT !.outcome = "returned"]
          /\ shown' = IF ~clean THEN << >>
                      ELSE IF lastPick.reset THEN << quote.q >>
                      ELSE Append(shown, quote.q)
          /\ pc' = "format"
          /\ UNCHANGED <<err, clean>>
       \/ /\ \/ UNCHANGED historyFile
             \/ historyFile' = Store("invalid", << >>)
          /\ Raise("OSError")
          /\ lastPick' = [lastPick EXCEPT !.outcome = "raised"]
          /\ clean' = FALSE
          /\ shown' = << >>
    /\ UNCHANGED <<mode, shutdown, handlers, slept, quotesFile, quotes, history,
                   quote, message, script, tmpFile, exitCode, logged, cycles,
                   edits, dispatched, sigAt, slicesAfterStop>>
    /\ UNCHANGED peer

\* Line 62, save_history (lines 48-51), then line 63.  open(.., "w") can fail,
\* which leaves the file as it was; the write can fail after open truncated
\* the file, which leaves it without a complete JSON value.
SaveHistory ==
    /\ pc = "save_history"
    /\ \/ /\ historyFile' = Overwrite(historyFile, history)
          /\ lastPick' = [lastPick EXCEPT !.outcome = "returned"]
          /\ shown' = IF ~clean THEN << >>
                      ELSE IF lastPick.reset THEN << quote.q >>
                      ELSE Append(shown, quote.q)
          /\ pc' = "format"
          /\ UNCHANGED <<err, clean>>
       \/ /\ \/ UNCHANGED historyFile
             \/ historyFile' = Store("invalid", << >>)
          /\ Raise("OSError")
          /\ lastPick' = [lastPick EXCEPT !.outcome = "raised"]
          /\ clean' = FALSE
          /\ shown' = << >>
    /\ UNCHANGED <<mode, shutdown, handlers, slept, quotesFile, quotes, history,
                   quote, message, script, tmpFile, exitCode, logged, cycles,
                   edits, dispatched, sigAt, slicesAfterStop>>
    /\ UNCHANGED peer

\* Lines 102-103, then show_notification up to line 82.
FormatMessage ==
    /\ pc = "format"
    /\ logged' = logged \cup {"showing"}
    /\ message' = Rendered[quote].message
    /\ script' = Rendered[quote].script
    /\ pc' = "mkstemp"
    /\ UNCHANGED <<mode, shutdown, handlers, slept, quotesFile, historyFile,
                   quotes, history, quote, tmpFile, err, exitCode, cycles,
                   edits, lastPick, dispatched, sigAt, slicesAfterStop, clean,
                   shown>>
    /\ UNCHANGED peer

\* Line 84: before the try block.
Mkstemp ==
    /\ pc = "mkstemp"
    /\ \/ /\ tmpFile' = "empty"
          /\ pc' = "write"
          /\ UNCHANGED err
       \/ /\ Raise("OSError")
          /\ UNCHANGED tmpFile
    /\ UNCHANGED <<mode, shutdown, handlers, slept, quotesFile, historyFile,
                   quotes, history, quote, message, script, exitCode, logged,
                   cycles, edits, lastPick, dispatched, sigAt,
                   slicesAfterStop, clean, shown>>
    /\ UNCHANGED peer

\* Lines 86-87; an exception goes through the finally clause.
WriteScript ==
    /\ pc = "write"
    /\ \/ /\ tmpFile' = "written"
          /\ pc' = "osascript"
          /\ UNCHANGED err
       \/ /\ err' = Exc("OSError", pc)
          /\ pc' = "unlink"
          /\ UNCHANGED tmpFile
    /\ UNCHANGED <<mode, shutdown, handlers, slept, quotesFile, historyFile,
                   quotes, history, quote, message, script, exitCode, logged,
                   cycles, edits, lastPick, dispatched, sigAt,
                   slicesAfterStop, clean, shown>>
    /\ UNCHANGED peer

\* Lines 88-94: osascript cannot be started, or runs the script and returns
\* zero, or runs it and returns nonzero.
Osascript ==
    /\ pc = "osascript"
    /\ \/ /\ err' = Exc("FileNotFoundError", pc)
          /\ UNCHANGED dispatched
       \/ /\ dispatched' = message
          /\ UNCHANGED err
       \/ /\ dispatched' = message
          /\ err' = Exc("RuntimeError", pc)
    /\ pc' = "unlink"
    /\ UNCHANGED <<mode, shutdown, handlers, slept, quotesFile, historyFile,
                   quotes, history, quote, message, script, tmpFile, exitCode,
                   logged, cycles, edits, lastPick, sigAt, slicesAfterStop,
                   clean, shown>>
    /\ UNCHANGED peer

\* A deletion placed after the try block instead of in a finally clause: an
\* exception passes it by.
Unlink_OnSuccess ==
    /\ pc = "unlink"
    /\ tmpFile' = IF err # NoErr THEN tmpFile ELSE "none"
    /\ IF err # NoErr
       THEN /\ pc' = "except"
            /\ UNCHANGED <<slept, exitCode, quotes, history, quote, message,
                           script, err, lastPick, dispatched>>
       ELSE /\ DropLocals
            /\ AfterCycle(0)
    /\ UNCHANGED <<mode, shutdown, handlers, quotesFile, historyFile, logged,
                   cycles, edits, sigAt, slicesAfterStop, clean, shown>>
    /\ UNCHANGED peer

\* Lines 95-96, then the exception continues or run_once returns.
Unlink ==
    /\ pc = "unlink"
    /\ tmpFile' = "none"
    /\ IF err # NoErr
       THEN /\ pc' = "except"
            /\ UNCHANGED <<slept, exitCode, quotes, history, quote, message,
                           script, err, lastPick, dispatched>>
       ELSE /\ DropLocals
            /\ AfterCycle(0)
    /\ UNCHANGED <<mode, shutdown, handlers, quotesFile, historyFile, logged,
                   cycles, edits, sigAt, slicesAfterStop, clean, shown>>
    /\ UNCHANGED peer

(***************************************************************************)
(* The environment.                                                        *)
(***************************************************************************)
\* Somebody rewrites quotes.json while the daemon waits.  The wait reads no
\* file, so the rewrite is placed in its first slice.
EditQuotes ==
    /\ pc = "sleep"
    /\ slept = 0
    /\ edits < MaxEdits
    /\ \E f \in QuoteFiles \ {quotesFile} : quotesFile' = f
    /\ edits' = edits + 1
    /\ clean' = FALSE
    /\ shown' = << >>
    /\ UNCHANGED <<mode, pc, shutdown, handlers, slept, historyFile, quotes,
                   history, quote, message, script, tmpFile, err, exitCode,
                   logged, cycles, lastPick, dispatched, sigAt,
                   slicesAfterStop>>
    /\ UNCHANGED peer

(***************************************************************************)
(* A second invocation of the program (another single-shot run, a second   *)
(* daemon) on the same quote file and the same history file.  Nothing in   *)
(* the source locks either file.  Its steps are those of run_once up to    *)
(* the return of pick_quote; what follows touches no shared file.          *)
(***************************************************************************)
\* What the second invocation never writes.
ownVars == <<mode, pc, shutdown, handlers, slept, quotesFile, quotes, history,
             quote, message, script, tmpFile, err, exitCode, logged, cycles,
             edits, lastPick, dispatched, sigAt, slicesAfterStop, clean,
             shown>>

PeerFails == [peer EXCEPT !.pc = "done", !.outcome = "raised"]

\* Line 100 in the second invocation.
PeerLoadQuotes ==
    /\ peer.pc = "idle"
    /\ peer' = IF quotesFile.kind = "pool"
               THEN [peer EXCEPT !.pc = "load_history",
                                 !.quotes = quotesFile.pool]
               ELSE PeerFails
    /\ UNCHANGED <<ownVars, historyFile>>

\* Line 54 in the second invocation.
PeerLoadHistory ==
    /\ peer.pc = "load_history"
    /\ LET r == load_history(historyFile)
       IN  peer' = IF r.raised
                   THEN [PeerFails EXCEPT !.store = historyFile]
                   ELSE [peer EXCEPT !.pc = "select", !.store = historyFile,
                                     !.history = r.value]
    /\ UNCHANGED <<ownVars, historyFile>>

\* Lines 55-61 in the second invocation.
PeerSelect ==
    /\ peer.pc = "select"
    /\ LET available == Available(peer.quotes, peer.history)
           h         == ResetHistory(available, peer.history)
           from      == Candidates(available, peer.quotes)
       IN  IF (peer.history.kind = "scalar" /\ peer.quotes # << >>)
              \/ from = << >> \/ h.kind # "list"
           THEN peer' = PeerFails
           ELSE \E i \in 1..Len(from) :
                  peer' = [peer EXCEPT
                             !.pc = "save_history",
                             !.quote = from[i],
                             !.history = Store("list", Append(h.items, from[i].q))]
    /\ UNCHANGED <<ownVars, historyFile>>

\* Lines 62-63 in the second invocation.
PeerSave ==
    /\ peer.pc = "save_history"
    /\ \/ /\ historyFile' = Overwrite(historyFile, peer.history)
          /\ peer' = [peer EXCEPT !.pc = "done", !.outcome = "returned"]
       \/ /\ \/ UNCHANGED historyFile
             \/ historyFile' = Store("invalid", << >>)
          /\ peer' = PeerFails
    /\ UNCHANGED ownVars

(***************************************************************************)
(* The specification.                                                      *)
(***************************************************************************)
Program ==
    \/ Main
    \/ Install
    \/ While
    \/ LoadQuotes
    \/ LoadHistory
    \/ Select
    \/ SaveHistory
    \/ FormatMessage
    \/ Mkstemp
    \/ WriteScript
    \/ Osascript
    \/ Unlink
    \/ Except
    \/ WaitCheck
    \/ Sleep

Next ==
    \/ Program
    \/ handle_signal
    \/ EditQuotes

Spec == Init /\ [][Next]_vars

\* A daemon and a second invocation side by side, started on a pool of at
\* least two pairwise-distinct texts and an empty history; no signal is
\* sent and the quote file is left alone.
RaceInit ==
    /\ Init
    /\ mode = "daemon"
    /\ quotesFile.kind = "pool"
    /\ DistinctTexts(quotesFile.pool)
    /\ Len(quotesFile.pool) >= 2
    /\ EmptyStart(historyFile)

RaceNext ==
    \/ Program
    \/ PeerLoadQuotes
    \/ PeerLoadHistory
    \/ PeerSelect
    \/ PeerSave

RaceSpec == RaceInit /\ [][RaceNext]_vars

\* One process, started on a pool of pairwise-distinct texts and an empty
\* history, the quote file left alone.
FixedPoolInit ==
    /\ Init
    /\ quotesFile.kind = "pool"
    /\ DistinctTexts(quotesFile.pool)
    /\ EmptyStart(historyFile)

FixedPoolNext == Program \/ handle_signal

FixedPoolSpec == FixedPoolInit /\ [][FixedPoolNext]_vars

\* The daemon alone, started on files that make a cycle fail in every way it
\* can (an unreadable quote file, an empty pool, a history that is no list)
\* or succeed, with an interpreter that keeps executing the process.
DaemonInit ==
    /\ Init
    /\ mode = "daemon"
    /\ \/ quotesFile.kind = "unreadable"
       \/ quotesFile.kind = "pool" /\ Len(quotesFile.pool) \in {0, MaxPool}
    /\ historyFile \in {Store("absent", << >>), Store("scalar", << >>),
                        Store("object", << >>)}

FairSpec == DaemonInit /\ [][Next]_vars /\ WF_vars(Program)

(***************************************************************************)
(* Properties of pick_quote.                                               *)
(***************************************************************************)
\* The history pick_quote loaded holds the text of every quote of the pool.
Exhausted(p) == TextsOf(p.pool) \subseteq Range(p.store.items)

\* pick_quote's call is over, by a return or by an exception.
Finished(p) == p.outcome \in {"returned", "raised"}

\* C1: for a non-empty pool and a persisted history (a list of strings)
\* that lacks the text of some quote of the pool, the quote pick_quote
\* returns is an element of the pool and its text is not in that history;
\* the call returns unless writing the history fails.
C1_PickAvoidsHistory ==
    (/\ Finished(lastPick)
     /\ Len(lastPick.pool) >= 1
     /\ IsStrList(lastPick.store)
     /\ ~Exhausted(lastPick))
    => /\ lastPick.outcome = "raised" => err.at = "save_history"
       /\ lastPick.outcome = "returned" =>
            /\ lastPick.quote \in Range(lastPick.pool)
            /\ lastPick.quote.q \notin Range(lastPick.store.items)

\* A pick that returned from a two-entry history that shares a text with
\* the pool and lacks another.
C1_Witness ==
    /\ lastPick.outcome = "returned"
    /\ IsStrList(lastPick.store)
    /\ Len(lastPick.store.items) = 2
    /\ ~Exhausted(lastPick)
    /\ Range(lastPick.store.items) \cap TextsOf(lastPick.pool) # {}
    /\ Len(lastPick.pool) = 3

\* C2: for a non-empty pool whose every text is in the persisted history,
\* pick_quote returns a quote of the pool (unless writing the history
\* fails), and the persisted history is then exactly the one-element list
\* of the returned text.
C2_ExhaustedResets ==
    (/\ Finished(lastPick)
     /\ Len(lastPick.pool) >= 1
     /\ IsStrList(lastPick.store)
     /\ Exhausted(lastPick))
    => /\ lastPick.outcome = "raised" => err.at = "save_history"
       /\ lastPick.outcome = "returned" =>
            /\ lastPick.quote \in Range(lastPick.pool)
            /\ historyFile = Store("list", << lastPick.quote.q >>)

\* A pick that returned from a history of two entries covering a pool of
\* two distinct texts.
C2_Witness ==
    /\ lastPick.outcome = "returned"
    /\ IsStrList(lastPick.store)
    /\ Exhausted(lastPick)
    /\ Len(lastPick.store.items) >= 2
    /\ Cardinality(TextsOf(lastPick.pool)) = 2
    /\ historyFile = Store("list", << lastPick.quote.q >>)

\* C3: in a run with a fixed pool of n pairwise-distinct texts that starts
\* with an empty history and in which every pick_quote call succeeded, no
\* text is returned twice between two resets, a reset happens only after
\* all n texts were returned, and with two quotes the second pick returns
\* the quote the first did not.
C3_FullCycleBeforeRepeat ==
    clean =>
       /\ NoDup(shown)
       /\ lastPick.outcome = "returned" =>
            /\ Range(shown) \subseteq TextsOf(lastPick.pool)
            /\ IF lastPick.reset
               THEN /\ Range(lastPick.seen) = TextsOf(lastPick.pool)
                    /\ Len(lastPick.seen) = Len(lastPick.pool)
               ELSE lastPick.quote.q \notin Range(lastPick.seen)
            /\ (Len(lastPick.pool) = 2 /\ Len(lastPick.seen) = 1) =>
                 lastPick.quote = CHOOSE q \in Range(lastPick.pool) :
                                      q.q # lastPick.seen[1]

\* The fourth pick of a three-quote pool: all three texts were returned
\* once, and the history is reset.
C3_Witness ==
    /\ clean
    /\ lastPick.outcome = "returned"
    /\ lastPick.reset
    /\ Len(lastPick.pool) = 3
    /\ Len(lastPick.seen) = 3

\* The second pick of a two-quote pool.
C3_WitnessTwo ==
    /\ clean
    /\ lastPick.outcome = "returned"
    /\ Len(lastPick.pool) = 2
    /\ Len(lastPick.seen) = 1

(***************************************************************************)
(* Properties of the daemon loop.                                          *)
(***************************************************************************)
\* C4: in daemon mode a cycle that raised leaves the loop running: unless a
\* termination request arrives, the loop waits the whole interval and then
\* starts another cycle.
C4_FailedCycleIsFollowed ==
    (mode = "daemon" /\ pc = "except")
        ~> (shutdown \/ (pc = "load_quotes" /\ slept = INTERVAL))

\* The second cycle of a daemon whose quote file was unreadable from the
\* start, so that its first cycle raised: it begins after a full wait.
C4_Witness ==
    /\ mode = "daemon"
    /\ quotesFile.kind = "unreadable"
    /\ edits = 0
    /\ cycles = 2
    /\ pc = "load_quotes"
    /\ slept = INTERVAL
    /\ ~shutdown

\* C5: a termination request delivered during the inter-cycle wait makes
\* the loop leave the wait after at most one more one-second slice and exit
\* without starting a cycle.
C5_WaitIsInterruptible ==
    /\ [](sigAt = "wait" => slicesAfterStop <= 1)
    /\ [][sigAt = "wait" => pc' # "load_quotes"]_vars
    /\ (sigAt = "wait") ~> (pc = "done")

\* The request arrived in the wait, one slice was slept out, and the loop
\* exited with part of the interval left.
C5_Witness ==
    /\ sigAt = "wait"
    /\ pc = "done"
    /\ slicesAfterStop = 1
    /\ slept < INTERVAL

\* The variables a cycle works on.
cycleVars == <<pc, quotes, history, quote, message, script, tmpFile, err,
               historyFile, lastPick, dispatched, logged>>

\* C6: a termination request delivered while a cycle is in flight does not
\* abort it: the handler changes nothing the cycle works on, the cycle is
\* left only through its own end or its own error, and afterwards the loop
\* exits without starting another cycle.
C6_CycleRunsToCompletion ==
    /\ [][(shutdown' /\ ~shutdown) => UNCHANGED cycleVars]_vars
    /\ [][(mode = "daemon" /\ pc \in InCycle)
             => pc' \in InCycle \cup {"wait_check"}]_vars
    /\ [][(shutdown /\ pc # "load_quotes") => pc' # "load_quotes"]_vars
    /\ (mode = "daemon" /\ shutdown) ~> (pc = "done")

\* The request arrived during the selection, and the notification of that
\* cycle was dispatched all the same.
C6_Witness ==
    /\ sigAt = "pick"
    /\ shutdown
    /\ pc = "unlink"
    /\ err = NoErr
    /\ dispatched # NoText
    /\ cycles = 1

\* C7: the daemon loop has exited only if a termination request was
\* delivered, whatever failed in its cycles.
C7_OnlySignalStops ==
    (mode = "daemon" /\ pc = "done") => (shutdown /\ sigAt # "none")

\* A daemon all of whose cycles raised, stopped by a request.
C7_Witness ==
    /\ mode = "daemon"
    /\ pc = "done"
    /\ quotesFile.kind = "malformed"
    /\ edits = 0
    /\ cycles = 2
    /\ shutdown

(***************************************************************************)
(* Properties of the error paths.                                          *)
(***************************************************************************)
\* A history file that is absent, unreadable, not JSON, or JSON that is not
\* a list of strings.
Unusable(st) == st.kind # "list" \/ ~IsStrList(st)

\* C8: for a history file that is absent, unreadable, not JSON, or JSON
\* that is not a list of strings, load_history returns an empty history
\* without raising, and pick_quote goes on as with an empty history file:
\* it raises nothing the empty history would not raise, and a returned pick
\* leaves the one-element history of its text.
C8_UnusableStoreIsEmpty ==
    (lastPick.outcome # "none" /\ Unusable(lastPick.store))
    => /\ err.at # "load_history"
       /\ pc = "select" => history = Store("list", << >>)
       /\ err.at = "select" => lastPick.pool = << >>
       /\ lastPick.outcome = "returned" =>
            historyFile = Store("list", << lastPick.quote.q >>)

\* C9: when writing the history fails after a quote was chosen, pick_quote
\* still returns the quote and its notification is dispatched in that cycle
\* (both have happened once control is with the caller of run_once), and
\* the failure is in the log once the cycle is over.
C9_FailedSaveStillShows ==
    err.at = "save_history"
    => /\ pc \in {"except", "done"} =>
            (lastPick.outcome = "returned" /\ dispatched # NoText)
       /\ pc = "done" => "error" \in logged

\* C10: single-shot mode runs exactly one cycle, and the exit status is
\* nonzero exactly if that cycle raised; a cycle that raised nothing
\* dispatched its notification and exits with status 0.
C10_SingleShotExit ==
    mode = "single" =>
       /\ cycles <= 1
       /\ pc = "done" =>
            /\ cycles = 1
            /\ exitCode # 0 <=> err # NoErr
            /\ err = NoErr => (exitCode = 0 /\ dispatched # NoText)

\* A single-shot run whose notification failed: status 1.
C10_Witness ==
    /\ mode = "single"
    /\ pc = "done"
    /\ err = Exc("RuntimeError", "osascript")
    /\ exitCode = 1

\* A single-shot run that showed its quote: status 0.
C10_WitnessSuccess ==
    /\ mode = "single"
    /\ pc = "done"
    /\ err = NoErr
    /\ dispatched # NoText
    /\ exitCode = 0

(***************************************************************************)
(* Two invocations on one history file.                                    *)
(***************************************************************************)
\* C11: nothing keeps a second invocation from loading and saving the
\* history while the first is between its own load and save, and a save
\* replaces the file: every text the first invocation has shown that the
\* second had not loaded is gone from the persisted history once the second
\* has saved (the lost update).
C11_LostUpdate ==
    /\ [](peer.pc = "load_history" => ENABLED PeerLoadHistory)
    /\ [](peer.pc = "save_history" => ENABLED PeerSave)
    /\ [][(peer.pc = "save_history" /\ peer'.outcome = "returned")
            => \A t \in Range(shown) :
                  t \notin Range(peer.history.items)
                      => t \notin Range(historyFile'.items)]_vars

\* The early repeat: the second invocation saved over the first one's
\* entry, and the first one's next pick returns, without a reset and with
\* texts of the pool still unshown, a text it has already returned.
C11_Witness ==
    /\ clean
    /\ peer.outcome = "returned"
    /\ lastPick.outcome = "returned"
    /\ ~lastPick.reset
    /\ lastPick.quote.q \in Range(lastPick.seen)
    /\ Len(lastPick.seen) < Len(lastPick.pool)

(***************************************************************************)
(* The empty pool.                                                         *)
(***************************************************************************)
\* C12: a call of pick_quote with an empty pool returns no quote: once the
\* history is loaded the call is at the choice or has raised (the IndexError
\* of random.choice, or the error of load_history), nothing is chosen, saved
\* or shown, and the cycle ends in the handler and, single-shot, in exit
\* status 1.
C12_EmptyPoolFails ==
    (lastPick.outcome # "none" /\ lastPick.pool = << >>)
        => /\ lastPick.outcome # "returned"
           /\ lastPick.quote = NoQuote
           /\ quote = NoQuote
           /\ dispatched = NoText
           /\ pc \in {"select", "except", "done"}
           /\ pc = "select" => lastPick.outcome = "pending"
           /\ pc = "except" => /\ lastPick.outcome = "raised"
                               /\ err.type \in {"IndexError", "OSError"}
           /\ pc = "done" => exitCode = 1

C12_Witness ==
    /\ lastPick.outcome = "raised"
    /\ lastPick.pool = << >>
    /\ pc = "except"
    /\ err = Exc("IndexError", "select")

(***************************************************************************)
(* The notification.                                                       *)
(***************************************************************************)
\* What lines 74-75 must make of a body m.
Shortened(m, out) ==
    IF Len(m) > MAX_QUOTE_LEN
    THEN /\ Len(out) = MAX_QUOTE_LEN
         /\ SubSeq(out, 1, MAX_QUOTE_LEN - 1) = SubSeq(m, 1, MAX_QUOTE_LEN - 1)
         /\ SubSeq(out, MAX_QUOTE_LEN, MAX_QUOTE_LEN) = Ellipsis
         /\ out # m
    ELSE out = m

\* Bodies of two characters under the limit to three over it.
BoundaryBodies ==
    { SubSeq(LongText \o "ab", 1, n) :
        n \in (MAX_QUOTE_LEN - 2)..(MAX_QUOTE_LEN + 3) }

\* C13: the body osascript is run with is, for a formatted quote longer
\* than 200 characters, its first 199 characters followed by the ellipsis,
\* 200 characters in all and never the original; a body of at most 200
\* characters is the formatted quote itself.  The same holds of the
\* truncation applied to bodies of every length around the limit.
C13_BodyTruncated ==
    /\ \A m \in BoundaryBodies : Shortened(m, Truncate(m))
    /\ dispatched # NoText => Shortened(Format(lastPick.quote), dispatched)

C13_Witness ==
    /\ dispatched # NoText
    /\ Len(Format(lastPick.quote)) > MAX_QUOTE_LEN
    /\ Len(dispatched) = MAX_QUOTE_LEN

C13_WitnessShort ==
    /\ dispatched # NoText
    /\ Len(Format(lastPick.quote)) <= MAX_QUOTE_LEN

\* C14: a temporary script file exists only while control is inside the
\* try block of show_notification or in its finally clause; wherever
\* show_notification has returned or raised - after a dispatch, after a
\* failed write, after osascript could not be started, after a nonzero
\* return code - the file is gone.
C14_TempFileDeleted ==
    /\ [](tmpFile # "none" => pc \in {"write", "osascript", "unlink"})
    /\ [][(pc = "unlink" /\ pc' # "unlink") => tmpFile' = "none"]_vars

\* show_notification has raised after osascript ran the script and
\* returned nonzero.
C14_Witness ==
    /\ pc = "except"
    /\ err = Exc("RuntimeError", "osascript")
    /\ dispatched # NoText
    /\ tmpFile = "none"

C14_WitnessWrite ==
    pc = "except" /\ err = Exc("OSError", "write") /\ tmpFile = "none"

C14_WitnessLaunch ==
    /\ pc = "except"
    /\ err = Exc("FileNotFoundError", "osascript")
    /\ tmpFile = "none"

C14_WitnessSuccess ==
    /\ mode = "single"
    /\ pc = "done"
    /\ exitCode = 0
    /\ dispatched # NoText
    /\ tmpFile = "none"

(***************************************************************************)
(* The first cycle of the daemon and the end of each wait.                 *)
(***************************************************************************)
\* The daemon loop is waiting or has exited.
WaitsOrExited == mode = "daemon" /\ pc \in InWait \cup {"done"}

\* Lines 126-129: the for loop is left at the end of its range or at the
\* break.
WaitEndsOnTime ==
    [][(pc \in InWait /\ pc' \notin InWait)
          => (slept = INTERVAL \/ shutdown)]_vars

\* C15, as stated: whenever the daemon loop waits or has exited, a full
\* first cycle (a pick and a dispatch, nothing failed) lies behind it; and
\* a wait ends only at the full interval or on a termination request.
C15_FullCycleFirst ==
    /\ [](WaitsOrExited => (cycles >= 1 /\ (cycles = 1 => logged = {"showing"})))
    /\ WaitEndsOnTime

\* C15, amended: whenever the daemon loop waits or has exited, a first
\* cycle has been run to its end - dispatched or failed and logged - unless
\* a termination request was delivered before the first test of the loop
\* condition, in which case the loop has exited with no cycle; and a wait
\* ends only at the full interval or on a termination request.
C15_CycleFirstUnlessStopped ==
    /\ [](WaitsOrExited =>
            IF cycles = 0
            THEN pc = "done" /\ shutdown /\ sigAt = "loop"
            ELSE logged # {})
    /\ WaitEndsOnTime

\* The first cycle dispatched, the whole interval was slept, and the loop
\* is back at its test with no request delivered.
C15_Witness ==
    /\ mode = "daemon"
    /\ pc = "while"
    /\ cycles = 1
    /\ logged = {"showing"}
    /\ slept = INTERVAL
    /\ ~shutdown

\* The daemon exited without a cycle.
C15_WitnessNoCycle ==
    mode = "daemon" /\ pc = "done" /\ cycles = 0

\* The loop waits after a first cycle that raised.
C15_WitnessFailedCycle ==
    mode = "daemon" /\ pc \in InWait /\ cycles = 1 /\ "error" \in logged

(***************************************************************************)
(* The persisted history of one process on a fixed pool.                   *)
(***************************************************************************)
\* C16: started on a pool of pairwise-distinct texts and an empty history,
\* the history file always reads (by load_history) as a list of texts of
\* the pool in which no text occurs twice, hence of at most as many entries
\* as the pool has quotes.
C16_HistoryWithinPool ==
    LET h == load_history(historyFile)
    IN  /\ ~h.raised
        /\ h.value.kind = "list"
        /\ NoDup(h.value.items)
        /\ Range(h.value.items) \subseteq TextsOf(quotesFile.pool)
        /\ Len(h.value.items) <= Len(quotesFile.pool)

\* Every text of a three-quote pool is in the file.
C16_Witness ==
    /\ historyFile.kind = "list"
    /\ Len(quotesFile.pool) = 3
    /\ Len(historyFile.items) = 3

\* The file after the pick that followed an exhaustion.
C16_WitnessReset ==
    /\ historyFile.kind = "list"
    /\ lastPick.outcome = "returned"
    /\ lastPick.reset
    /\ Len(lastPick.pool) >= 2
    /\ historyFile.items = << lastPick.quote.q >>

(***************************************************************************)
(* The choice after an exhaustion.                                         *)
(***************************************************************************)
\* C17: when every quote of a non-empty pool is in the loaded history, each
\* quote of the pool - the one shown last included - is a possible outcome
\* of the choice, with a history that holds that quote alone.
C17_ResetSelectsFromFullPool ==
    (/\ pc = "select"
     /\ history.kind = "list"
     /\ quotes # << >>
     /\ Available(quotes, history) = << >>)
        => \A i \in 1..Len(quotes) :
              ENABLED (/\ Select
                       /\ quote' = quotes[i]
                       /\ history' = Store("list", << quotes[i].q >>))

\* The immediate repeat: the pick that reset the history returned the text
\* that the pick before it had returned.
C17_Witness ==
    /\ clean
    /\ lastPick.outcome = "returned"
    /\ lastPick.reset
    /\ Len(lastPick.pool) >= 2
    /\ Len(lastPick.seen) = Len(lastPick.pool)
    /\ lastPick.quote.q = lastPick.seen[Len(lastPick.seen)]

(***************************************************************************)
(* The pool over the life of a daemon.                                     *)
(***************************************************************************)
\* C18: the quote file is read in the first cycle of a process and in no
\* later one; so once the file has been rewritten (once, to something
\* else), the pool a pick works on is not what the file now holds.
C18_PoolLoadedOnce ==
    /\ pc = "load_quotes" => cycles <= 1
    /\ (/\ mode = "daemon"
        /\ edits = 1
        /\ lastPick.outcome # "none"
        /\ quotesFile.kind = "pool")
          => lastPick.pool # quotesFile.pool

(***************************************************************************)
(* The history when the notification fails.                                *)
(***************************************************************************)
\* show_notification has raised.
DispatchFailed ==
    pc = "except" /\ err.at \in {"mkstemp", "write", "osascript"}

\* What the filter of the next pick (line 55) would keep, were it computed
\* on the files as they are.
StillOffered ==
    IF quotesFile.kind = "pool" /\ ~load_history(historyFile).raised
    THEN TextsOf(Available(quotesFile.pool, load_history(historyFile).value))
    ELSE {}

C20_FailedPickKeepsStore ==
    /\ [][(pc \in {"load_quotes", "load_history", "select"})
             => (historyFile' = historyFile)]_vars
    /\ []((pc = "except" /\ err.at \in {"load_history", "select"})
             => historyFile = lastPick.store)

\* The pool is empty: the history in memory was reset to [], the choice
\* raised, and the file still holds its entries.
C20_Witness ==
    /\ pc = "except"
    /\ err = Exc("IndexError", "select")
    /\ lastPick.pool = << >>
    /\ history = Store("list", << >>)
    /\ historyFile.kind = "list"
    /\ historyFile.items # << >>

\* The quote file cannot be parsed: the cycle raised before pick_quote.
C20_WitnessMalformed ==
    /\ pc = "except"
    /\ err = Exc("JSONDecodeError", "load_quotes")
    /\ historyFile.kind = "list"
    /\ historyFile.items # << >>

====
